---- MODULE Spec2Model ----
(***************************************************************************)
(* Model of ElectricityBillTracker (src/electricity_bill.py): the ledger   *)
(* of meter readings (history_data and its file), the stored initial       *)
(* reading, the device registry, and the views computed from them          *)
(* (history table, summary, analytics graph, usage estimation).            *)
(*                                                                         *)
(* Numbers are Python floats.  A float is modelled as a record             *)
(* [nan, v]: an integer value v, or NaN (float("nan") parses, and every    *)
(* comparison with NaN is False).  Energy in kWh is held in Wh             *)
(* (thousandths), so the code's "/ 1000" is exact.                         *)
(* Strings the code formats, parses or compares character by character     *)
(* (dates, bucket keys, device names) are sequences of one-character       *)
(* strings.                                                                *)
(***************************************************************************)
EXTENDS Integers, Sequences, FiniteSets, TLC

VARIABLES
    history_data,           \* self.history_data: list of entries (insertion order)
    history_file,           \* electricity_bill_history.json
    initial_reading_file,   \* initial_reading.json
    devices_data,           \* self.devices_data: list of devices
    devices_file,           \* devices.json
    current_reading,        \* self.current_reading (cached float)
    today,                  \* QDate.currentDate()
    filter_type,            \* self.filter_type.currentText()
    start_date,             \* self.start_date.date()
    end_date,               \* self.end_date.date()
    analytics_period,       \* self.analytics_period.currentText()
    analytics_year,         \* int(self.analytics_year.currentText())
    current_reading_label,  \* value shown by self.current_reading_label
    history_table,          \* rows shown by self.history_table
    summary_label,          \* content of self.summary_label
    graph,                  \* points plotted by update_graph
    estimation_label,       \* content of self.estimation_label
    comparison_label,       \* content of self.comparison_label
    dialog                  \* titles of the message boxes the last handler showed

ledgerVars == <<history_data, history_file, initial_reading_file, current_reading>>
deviceVars == <<devices_data, devices_file>>
selectVars == <<filter_type, start_date, end_date, analytics_period, analytics_year>>
viewVars   == <<current_reading_label, history_table, summary_label, graph,
                estimation_label, comparison_label>>
vars == <<ledgerVars, deviceVars, selectVars, viewVars, today, dialog>>

-----------------------------------------------------------------------------
(* Bounds of the model *)

MaxHistory == 2      \* entries the ledger may hold
MaxDevices == 2      \* devices the registry may hold
MaxOrdinal == 123    \* largest number whose ordinal label is computed

-----------------------------------------------------------------------------
(* Python floats *)

F(n) == [nan |-> FALSE, v |-> n]
NaN == [nan |-> TRUE, v |-> 0]

FSub(a, b) == IF a.nan \/ b.nan THEN NaN ELSE F(a.v - b.v)
FAdd(a, b) == IF a.nan \/ b.nan THEN NaN ELSE F(a.v + b.v)
FMul(a, b) == IF a.nan \/ b.nan THEN NaN ELSE F(a.v * b.v)
FLt(a, b) == ~a.nan /\ ~b.nan /\ a.v < b.v
FLe(a, b) == ~a.nan /\ ~b.nan /\ a.v <= b.v
FGt(a, b) == FLt(b, a)
FGe(a, b) == FLe(b, a)

\* sum(...) over a sequence of floats: Python adds left to right from 0
RECURSIVE FSum(_)
FSum(s) == IF s = <<>> THEN F(0)
           ELSE FAdd(FSum(SubSeq(s, 1, Len(s) - 1)), s[Len(s)])

\* Text of a QLineEdit, as float(text) sees it: not a number, or a float literal
JunkText == [kind |-> "junk", val |-> NaN]
FloatText(x) == [kind |-> "float", val |-> x]
\* float(text) raises ValueError
FloatRaises(t) == t.kind # "float"
FloatOf(t) == t.val

unit_cost == 12

-----------------------------------------------------------------------------
(* Strings *)

Digits == <<"0", "1", "2", "3", "4", "5", "6", "7", "8", "9">>
DigitChar(d) == Digits[d + 1]
DigitVal(c) ==
    CASE c = "0" -> 0 [] c = "1" -> 1 [] c = "2" -> 2 [] c = "3" -> 3 [] c = "4" -> 4
      [] c = "5" -> 5 [] c = "6" -> 6 [] c = "7" -> 7 [] c = "8" -> 8 [] c = "9" -> 9

\* str(n) for n >= 0
RECURSIVE IntToStr(_)
IntToStr(n) == IF n < 10 THEN <<DigitChar(n)>>
               ELSE IntToStr(n \div 10) \o <<DigitChar(n % 10)>>

\* n formatted with at least w digits, zero padded (":02d", "dd", "MM", "yyyy")
RECURSIVE Pad(_, _)
Pad(s, w) == IF Len(s) >= w THEN s ELSE Pad(<<"0">> \o s, w)
ZeroPadded(n, w) == Pad(IntToStr(n), w)

\* int(s) for a string of digits
RECURSIVE StrToInt(_)
StrToInt(s) == IF s = <<>> THEN 0
               ELSE 10 * StrToInt(SubSeq(s, 1, Len(s) - 1)) + DigitVal(s[Len(s)])

\* s.split('-')
RECURSIVE SplitDash(_)
SplitDash(s) ==
    IF \A i \in 1..Len(s) : s[i] # "-" THEN <<s>>
    ELSE LET i == CHOOSE j \in 1..Len(s) :
                      s[j] = "-" /\ \A k \in 1..(j - 1) : s[k] # "-"
         IN <<SubSeq(s, 1, i - 1)>> \o SplitDash(SubSeq(s, i + 1, Len(s)))

\* ord(c) for the characters of bucket keys
CodePoint(c) == IF c = "-" THEN 45 ELSE 48 + DigitVal(c)

\* Python's s < t on strings
RECURSIVE StrLess(_, _)
StrLess(s, t) ==
    IF t = <<>> THEN FALSE
    ELSE IF s = <<>> THEN TRUE
    ELSE IF CodePoint(Head(s)) # CodePoint(Head(t))
         THEN CodePoint(Head(s)) < CodePoint(Head(t))
    ELSE StrLess(Tail(s), Tail(t))

-----------------------------------------------------------------------------
(* Dates *)

Date(y, m, d) == [year |-> y, month |-> m, day |-> d]

\* QDate.toJulianDay()
toJulianDay(q) ==
    LET a == (14 - q.month) \div 12
        y == q.year + 4800 - a
        m == q.month + 12 * a - 3
    IN q.day + ((153 * m + 2) \div 5) + 365 * y + (y \div 4) - (y \div 100)
       + (y \div 400) - 32045

\* QDate.toString("dd-MM-yyyy")
toString_ddMMyyyy(q) ==
    ZeroPadded(q.day, 2) \o <<"-">> \o ZeroPadded(q.month, 2) \o <<"-">>
    \o ZeroPadded(q.year, 4)

\* QDate.toString("yyyy-MM-dd")
toString_yyyyMMdd(q) ==
    ZeroPadded(q.year, 4) \o <<"-">> \o ZeroPadded(q.month, 2) \o <<"-">>
    \o ZeroPadded(q.day, 2)

\* QDate.fromString(s, "dd-MM-yyyy") on a string this program wrote: two digits
\* of day, two of month, four of year
fromString_ddMMyyyy(s) ==
    Date(1000 * DigitVal(s[7]) + 100 * DigitVal(s[8]) + 10 * DigitVal(s[9])
           + DigitVal(s[10]),
         10 * DigitVal(s[4]) + DigitVal(s[5]),
         10 * DigitVal(s[1]) + DigitVal(s[2]))

\* QDate <= QDate
DateLeq(p, q) == toJulianDay(p) <= toJulianDay(q)

\* The calendar days the date pickers take in this model, and the days on which
\* the program is run
Dates == { Date(2023, 1, 10), Date(2024, 1, 10), Date(2024, 1, 29),
           Date(2024, 1, 31), Date(2024, 2, 1), Date(2024, 10, 8) }
Todays == { Date(2024, 1, 10), Date(2024, 2, 1) }

DaysInMonth(y, m) ==
    IF m \in {4, 6, 9, 11} THEN 30
    ELSE IF m # 2 THEN 31
    ELSE IF (y % 4 = 0 /\ y % 100 # 0) \/ y % 400 = 0 THEN 29 ELSE 28

\* QDate.addMonths(-1)
addMonthsMinus1(q) ==
    LET y == IF q.month = 1 THEN q.year - 1 ELSE q.year
        m == IF q.month = 1 THEN 12 ELSE q.month - 1
        dim == DaysInMonth(y, m)
    IN Date(y, m, IF q.day > dim THEN dim ELSE q.day)

\* calendar.month_name[m]
month_name(m) ==
    <<"January", "February", "March", "April", "May", "June", "July", "August",
      "September", "October", "November", "December">>[m]

-----------------------------------------------------------------------------
(* Files and JSON *)

\* A file is absent, holds a complete JSON document, or was opened for writing
\* (truncated) by a write that then failed
AbsentFile == [state |-> "absent", data |-> <<>>]
TruncatedFile == [state |-> "truncated", data |-> <<>>]
WrittenFile(doc) == [state |-> "ok", data |-> doc]

\* open(path, "w") then json.dump: the write succeeds or, when the file system fails
\* during the call, open raises (the file is as before) or the dump raises after
\* open truncated the file
WriteOutcomes(old, doc, faulty) ==
    IF faulty THEN { WrittenFile(doc), old, TruncatedFile } ELSE { WrittenFile(doc) }

\* Mutant: the file is not removed
RemoveOutcomes_kept(old, faulty) == { old }

\* os.remove(path) when the file exists: it is removed or, when the file system
\* fails during the call, os.remove raises
RemoveOutcomes(old, faulty) ==
    IF old.state = "absent" THEN { old }
    ELSE IF faulty THEN { AbsentFile, old } ELSE { AbsentFile }

\* A JSON object as json.dump writes a dict: its (key, value) pairs in insertion order
JsonValue(obj, key) == obj[CHOOSE i \in 1..Len(obj) : obj[i][1] = key][2]

DumpEntry(e) ==
    << <<"date", e.date>>, <<"previous_reading", e.previous_reading>>,
       <<"new_reading", e.new_reading>>, <<"units", e.units>>,
       <<"unit_cost", e.unit_cost>>, <<"total_cost", e.total_cost>> >>
LoadEntry(obj) ==
    [date |-> JsonValue(obj, "date"),
     previous_reading |-> JsonValue(obj, "previous_reading"),
     new_reading |-> JsonValue(obj, "new_reading"),
     units |-> JsonValue(obj, "units"),
     unit_cost |-> JsonValue(obj, "unit_cost"),
     total_cost |-> JsonValue(obj, "total_cost")]

DumpDevice(d) ==
    << <<"name", d.name>>, <<"power_watts", d.power_watts>>,
       <<"hours_per_day", d.hours_per_day>>, <<"daily_kwh", d.daily_kwh>>,
       <<"monthly_kwh", d.monthly_kwh>> >>
LoadDevice(obj) ==
    [name |-> JsonValue(obj, "name"),
     power_watts |-> JsonValue(obj, "power_watts"),
     hours_per_day |-> JsonValue(obj, "hours_per_day"),
     daily_kwh |-> JsonValue(obj, "daily_kwh"),
     monthly_kwh |-> JsonValue(obj, "monthly_kwh")]

\* Mutant: only the entry just appended is written
DumpHistory_latestOnly(h) == IF h = <<>> THEN <<>> ELSE <<DumpEntry(h[Len(h)])>>

\* json.dump(self.history_data, f)
DumpHistory(h) == [i \in 1..Len(h) |-> DumpEntry(h[i])]
\* json.dump(self.devices_data, f)
DumpDevices(ds) == [i \in 1..Len(ds) |-> DumpDevice(ds[i])]
\* json.dump({"initial_reading": initial_reading}, f)
DumpInitialReading(x) == << <<"initial_reading", x>> >>

\* load_history(): the file's list, [] when the file is absent or unreadable
load_history(file) ==
    IF file.state = "ok" THEN [i \in 1..Len(file.data) |-> LoadEntry(file.data[i])]
    ELSE <<>>

\* load_devices()
load_devices(file) ==
    IF file.state = "ok" THEN [i \in 1..Len(file.data) |-> LoadDevice(file.data[i])]
    ELSE <<>>

-----------------------------------------------------------------------------
(* Ledger queries *)

EntryDate(e) == fromString_ddMMyyyy(e.date)

\* Mutant: the most recently appended entry
MaxByDate_lastAppended(h) == h[Len(h)]

\* max(history, key=julian day): Python's max returns the first maximal element
MaxByDate(h) ==
    LET key == [i \in 1..Len(h) |-> toJulianDay(EntryDate(h[i]))]
    IN h[CHOOSE i \in 1..Len(h) :
           /\ \A j \in 1..Len(h) : key[j] <= key[i]
           /\ \A j \in 1..(i - 1) : key[j] < key[i]]

\* Mutant: a stored initial reading is preferred to the ledger
get_initial_reading_fileFirst(h, file) ==
    IF file.state = "ok" THEN JsonValue(file.data, "initial_reading")
    ELSE IF h # <<>> THEN MaxByDate(h).new_reading
    ELSE F(0)

\* get_initial_reading()
get_initial_reading(h, file) ==
    IF h # <<>> THEN MaxByDate(h).new_reading
    ELSE IF file.state = "ok" THEN JsonValue(file.data, "initial_reading")
    ELSE F(0)

\* Mutant: the month alone is compared
InThisMonth_anyYear(e, now) == EntryDate(e).month = now.month

\* entry_date.month() == today.month() and entry_date.year() == today.year()
InThisMonth(e, now) ==
    EntryDate(e).month = now.month /\ EntryDate(e).year = now.year

\* Mutant: no sort, the entries in insertion order
SortedByDateDesc_unsorted(h) == h

\* sorted(history, key=QDate, reverse=True): stable, descending by date
SortedByDateDesc(h) ==
    LET key == [i \in 1..Len(h) |-> toJulianDay(EntryDate(h[i]))]
        pos == [i \in 1..Len(h) |->
                   1 + Cardinality({j \in 1..Len(h) : key[j] > key[i]})
                     + Cardinality({j \in 1..(i - 1) : key[j] = key[i]})]
    IN [p \in 1..Len(h) |-> h[CHOOSE i \in 1..Len(h) : pos[i] = p]]

filter_history(h, ftype, now, sd, ed) ==
    IF h = <<>> THEN <<>>
    ELSE LET Keep(e) ==
                 CASE ftype = "All" -> TRUE
                   [] ftype = "This Month" -> InThisMonth(e, now)
                   [] ftype = "This Year" -> EntryDate(e).year = now.year
                   [] ftype = "Custom Range" ->
                          DateLeq(sd, EntryDate(e)) /\ DateLeq(EntryDate(e), ed)
                   [] OTHER -> FALSE
         IN SelectSeq(SortedByDateDesc(h), Keep)

UnitsOf(h) == [i \in 1..Len(h) |-> h[i].units]
CostsOf(h) == [i \in 1..Len(h) |-> h[i].total_cost]

\* The content of summary_label
NoSummary == [text |-> "No usage history available", total_units |-> F(0),
              total_cost |-> F(0), this_month_units |-> F(0), unit_cost |-> F(0)]
update_summary(h, now) ==
    IF h = <<>> THEN NoSummary
    ELSE LET InMonth(e) == InThisMonth(e, now)
         IN [text |-> "summary",
             total_units |-> FSum(UnitsOf(h)),
             total_cost |-> FSum(CostsOf(h)),
             this_month_units |-> FSum(UnitsOf(SelectSeq(h, InMonth))),
             unit_cost |-> F(unit_cost)]
-----------------------------------------------------------------------------
(* Analytics: a dict is the sequence of its items in insertion order *)

HasKey(d, k) == \E i \in 1..Len(d) : d[i].key = k
KeyIndex(d, k) == CHOOSE i \in 1..Len(d) : d[i].key = k

\* Mutant: "=" for "+=", a bucket keeps its last entry only
RECURSIVE Accumulate_overwrite(_)
Accumulate_overwrite(items) ==
    IF items = <<>> THEN <<>>
    ELSE LET d == Accumulate_overwrite(SubSeq(items, 1, Len(items) - 1))
             it == items[Len(items)]
             d0 == IF \E i \in 1..Len(d) : d[i].key = it.key THEN d
                   ELSE Append(d, [key |-> it.key, units |-> F(0), cost |-> F(0)])
             i == CHOOSE j \in 1..Len(d0) : d0[j].key = it.key
         IN [d0 EXCEPT ![i].units = it.units, ![i].cost = it.cost]

\* for each item: create {"units": 0, "cost": 0} under a new key, then += units, cost
RECURSIVE Accumulate(_)
Accumulate(items) ==
    IF items = <<>> THEN <<>>
    ELSE LET d == Accumulate(SubSeq(items, 1, Len(items) - 1))
             it == items[Len(items)]
             d0 == IF HasKey(d, it.key) THEN d
                   ELSE Append(d, [key |-> it.key, units |-> F(0), cost |-> F(0)])
             i == KeyIndex(d0, it.key)
         IN [d0 EXCEPT ![i].units = FAdd(@, it.units), ![i].cost = FAdd(@, it.cost)]

\* d[k] = v for a dict: a new key goes last, an existing key keeps its place
DictPut(d, k, units, cost) ==
    IF HasKey(d, k)
    THEN [d EXCEPT ![KeyIndex(d, k)] = [key |-> k, units |-> units, cost |-> cost]]
    ELSE Append(d, [key |-> k, units |-> units, cost |-> cost])

\* sorted(d.keys()) for the distinct string keys of a dict
SortedStrKeys(d) ==
    LET keys == { d[i].key : i \in 1..Len(d) }
    IN [p \in 1..Len(d) |->
           CHOOSE k \in keys : Cardinality({k2 \in keys : StrLess(k2, k)}) = p - 1]

\* sorted(d.keys()) for the distinct integer keys of a dict
SortedIntKeys(d) ==
    LET keys == { d[i].key : i \in 1..Len(d) }
    IN [p \in 1..Len(d) |->
           CHOOSE k \in keys : Cardinality({k2 \in keys : k2 < k}) = p - 1]

\* update_graph(stats_data, sorted_keys): the points in plotting order
update_graph(d, periods) ==
    [p \in 1..Len(periods) |->
        [label |-> periods[p], units |-> d[KeyIndex(d, periods[p])].units,
         cost |-> d[KeyIndex(d, periods[p])].cost]]

\* Mutant: the suffix is chosen by the last digit alone
_get_ordinal_lastDigit(n) ==
    LET m == IF n % 10 < 4 THEN n % 10 ELSE 4
    IN IntToStr(n) \o << <<"t", "h">>, <<"s", "t">>, <<"n", "d">>, <<"r", "d">>,
                         <<"t", "h">> >>[m + 1]

\* _get_ordinal(n)
_get_ordinal(n) ==
    LET m == IF n % 10 < 4 THEN n % 10 ELSE 4
        suffix == IF 11 <= n % 100 /\ n % 100 <= 13 THEN <<"t", "h">>
                  ELSE << <<"t", "h">>, <<"s", "t">>, <<"n", "d">>, <<"r", "d">>,
                          <<"t", "h">> >>[m + 1]
    IN IntToStr(n) \o suffix

week_of_month(q) == (q.day - 1) \div 7 + 1

\* Mutant: the month is not zero padded
WeekSortKey_unpadded(q) ==
    IntToStr(q.year) \o <<"-">> \o IntToStr(q.month) \o <<"-">>
    \o IntToStr(week_of_month(q))

\* f"{year}-{month:02d}-{week_of_month}"
WeekSortKey(q) ==
    IntToStr(q.year) \o <<"-">> \o ZeroPadded(q.month, 2) \o <<"-">>
    \o IntToStr(week_of_month(q))

\* f"{ordinal_week} week {month_name} {y}"
WeekDisplayKey(y, m, w) == <<_get_ordinal(w), " week ", month_name(m), " ", IntToStr(y)>>

\* Mutant: no year filter
InSelectedYear_all(e, year) == TRUE

\* if entry_date.year() != year: continue
InSelectedYear(e, year) == EntryDate(e).year = year

show_daily_stats(h, year) ==
    LET InYear(e) == InSelectedYear(e, year)
        kept == SelectSeq(h, InYear)
        daily_data == Accumulate([i \in 1..Len(kept) |->
                          [key |-> toString_yyyyMMdd(EntryDate(kept[i])),
                           units |-> kept[i].units, cost |-> kept[i].total_cost]])
    IN update_graph(daily_data, SortedStrKeys(daily_data))

RECURSIVE WeeklyDisplayData(_, _)
WeeklyDisplayData(weekly_data, sorted_keys) ==
    IF sorted_keys = <<>> THEN <<>>
    ELSE LET key == sorted_keys[Len(sorted_keys)]
             ymw == SplitDash(key)
             display_key == WeekDisplayKey(StrToInt(ymw[1]), StrToInt(ymw[2]),
                                           StrToInt(ymw[3]))
             value == weekly_data[KeyIndex(weekly_data, key)]
         IN DictPut(WeeklyDisplayData(weekly_data,
                                      SubSeq(sorted_keys, 1, Len(sorted_keys) - 1)),
                    display_key, value.units, value.cost)

show_weekly_stats(h, year) ==
    LET InYear(e) == InSelectedYear(e, year)
        kept == SelectSeq(h, InYear)
        weekly_data == Accumulate([i \in 1..Len(kept) |->
                           [key |-> WeekSortKey(EntryDate(kept[i])),
                            units |-> kept[i].units, cost |-> kept[i].total_cost]])
        display_data == WeeklyDisplayData(weekly_data, SortedStrKeys(weekly_data))
    IN update_graph(display_data, [i \in 1..Len(display_data) |-> display_data[i].key])

RECURSIVE MonthlyDisplayData(_, _)
MonthlyDisplayData(monthly_data_by_num, sorted_month_nums) ==
    IF sorted_month_nums = <<>> THEN <<>>
    ELSE LET month_num == sorted_month_nums[Len(sorted_month_nums)]
             value == monthly_data_by_num[KeyIndex(monthly_data_by_num, month_num)]
         IN DictPut(MonthlyDisplayData(monthly_data_by_num,
                        SubSeq(sorted_month_nums, 1, Len(sorted_month_nums) - 1)),
                    month_name(month_num), value.units, value.cost)

show_monthly_stats(h, year) ==
    LET InYear(e) == InSelectedYear(e, year)
        kept == SelectSeq(h, InYear)
        monthly_data_by_num == Accumulate([i \in 1..Len(kept) |->
                                   [key |-> EntryDate(kept[i]).month,
                                    units |-> kept[i].units, cost |-> kept[i].total_cost]])
        sorted_month_nums == SortedIntKeys(monthly_data_by_num)
        display_data == MonthlyDisplayData(monthly_data_by_num, sorted_month_nums)
    IN update_graph(display_data,
                    [i \in 1..Len(sorted_month_nums) |-> month_name(sorted_month_nums[i])])

show_yearly_stats(h) ==
    LET yearly_data == Accumulate([i \in 1..Len(h) |->
                           [key |-> EntryDate(h[i]).year,
                            units |-> h[i].units, cost |-> h[i].total_cost]])
    IN update_graph(yearly_data, SortedIntKeys(yearly_data))

\* update_analytics(): what the graph plots; <<>> is "No data to display"
update_analytics(h, period, year) ==
    IF h = <<>> THEN <<>>
    ELSE CASE period = "Daily" -> show_daily_stats(h, year)
           [] period = "Weekly" -> show_weekly_stats(h, year)
           [] period = "Monthly" -> show_monthly_stats(h, year)
           [] period = "Yearly" -> show_yearly_stats(h)

-----------------------------------------------------------------------------
(* Device registry *)

\* One kWh in the unit energy is held in (Wh)
KWH == 1000

\* str.lower() on the characters of device names
LowerChar(c) == CASE c = "F" -> "f" [] c = "T" -> "t" [] OTHER -> c
lower(s) == [i \in 1..Len(s) |-> LowerChar(s[i])]

\* str.strip()
RECURSIVE lstrip(_)
lstrip(s) == IF s # <<>> /\ Head(s) = " " THEN lstrip(Tail(s)) ELSE s
RECURSIVE rstrip(_)
rstrip(s) == IF s # <<>> /\ s[Len(s)] = " " THEN rstrip(SubSeq(s, 1, Len(s) - 1)) ELSE s
strip(s) == rstrip(lstrip(s))

\* Mutant: the daily figure is summed
MonthlyKwhOf_daily(ds) == [i \in 1..Len(ds) |-> ds[i].daily_kwh]

\* device["monthly_kwh"] for device in self.devices_data
MonthlyKwhOf(ds) == [i \in 1..Len(ds) |-> ds[i].monthly_kwh]

\* The content of estimation_label
EstimationOf(ds) ==
    LET total_monthly_kwh == FSum(MonthlyKwhOf(ds))
    IN [total_monthly_kwh |-> total_monthly_kwh,
        total_cost |-> FMul(total_monthly_kwh, F(unit_cost))]

FAbs(a) == IF a.nan THEN NaN ELSE IF a.v < 0 THEN F(0 - a.v) ELSE a

\* Mutant: a difference of exactly one unit counts as close
ComparisonOf_closeInclusive(h, ds, now) ==
    LET total_monthly_kwh == FSum(MonthlyKwhOf(ds))
        InMonth(e) == InThisMonth(e, now)
        this_month_actual == FMul(FSum(UnitsOf(SelectSeq(h, InMonth))), F(KWH))
        difference == FSub(this_month_actual, total_monthly_kwh)
    IN IF h = <<>>
       THEN [text |-> "Add some usage history to see comparison",
             actual |-> F(0), difference |-> F(0)]
       ELSE IF ~FGt(this_month_actual, F(0))
       THEN [text |-> "No actual usage data for this month yet",
             actual |-> F(0), difference |-> F(0)]
       ELSE IF FLe(FAbs(difference), F(KWH))
       THEN [text |-> "Very close to estimate!",
             actual |-> this_month_actual, difference |-> difference]
       ELSE IF FGt(difference, F(0))
       THEN [text |-> "more than estimate",
             actual |-> this_month_actual, difference |-> difference]
       ELSE [text |-> "less than estimate",
             actual |-> this_month_actual, difference |-> FAbs(difference)]

\* The content of comparison_label
ComparisonOf(h, ds, now) ==
    LET total_monthly_kwh == FSum(MonthlyKwhOf(ds))
        InMonth(e) == InThisMonth(e, now)
        this_month_actual == FMul(FSum(UnitsOf(SelectSeq(h, InMonth))), F(KWH))
        difference == FSub(this_month_actual, total_monthly_kwh)
    IN IF h = <<>>
       THEN [text |-> "Add some usage history to see comparison",
             actual |-> F(0), difference |-> F(0)]
       ELSE IF ~FGt(this_month_actual, F(0))
       THEN [text |-> "No actual usage data for this month yet",
             actual |-> F(0), difference |-> F(0)]
       ELSE IF FLt(FAbs(difference), F(KWH))
       THEN [text |-> "Very close to estimate!",
             actual |-> this_month_actual, difference |-> difference]
       ELSE IF FGt(difference, F(0))
       THEN [text |-> "more than estimate",
             actual |-> this_month_actual, difference |-> difference]
       ELSE [text |-> "less than estimate",
             actual |-> this_month_actual, difference |-> FAbs(difference)]
-----------------------------------------------------------------------------
(* Billing and validation *)

\* Mutant: the reading, not the consumption, is tested
ReadingRejected_negativeOnly(new_reading, cur) == FLt(new_reading, F(0))

\* consumption = new_reading - self.current_reading; if consumption < 0: raise ValueError
ReadingRejected(new_reading, cur) == FLt(FSub(new_reading, cur), F(0))

\* Mutant: the ledger is kept newest first
history_append_front(h, entry) == <<entry>> \o h

\* self.history_data.append(entry)
history_append(h, entry) == Append(h, entry)

\* The entry save_entry builds
NewEntry(new_reading, date, cur) ==
    LET consumption == FSub(new_reading, cur)
    IN [date |-> toString_ddMMyyyy(date),
        previous_reading |-> cur,
        new_reading |-> new_reading,
        units |-> consumption,
        unit_cost |-> F(unit_cost),
        total_cost |-> FMul(consumption, F(unit_cost))]

\* if initial_reading < 0: raise ValueError
InitialReadingRejected(initial_reading) == FLt(initial_reading, F(0))

\* Mutant: the duplicate check compares names case-sensitively
DeviceRejection_caseSensitive(name, power, hours, ds) ==
    IF name = <<>> THEN "Invalid Input"
    ELSE IF FLe(power, F(0)) \/ FLe(hours, F(0)) THEN "Invalid Input"
    ELSE IF FGt(hours, F(24)) THEN "Invalid Input"
    ELSE IF \E i \in 1..Len(ds) : ds[i].name = name THEN "Duplicate Device"
    ELSE ""

\* The warning add_device returns with, "" when the device is accepted
DeviceRejection(name, power, hours, ds) ==
    IF name = <<>> THEN "Invalid Input"
    ELSE IF FLe(power, F(0)) \/ FLe(hours, F(0)) THEN "Invalid Input"
    ELSE IF FGt(hours, F(24)) THEN "Invalid Input"
    ELSE IF \E i \in 1..Len(ds) : lower(ds[i].name) = lower(name) THEN "Duplicate Device"
    ELSE ""

\* The device add_device builds (energy in Wh: kWh times KWH)
NewDevice(name, power, hours) ==
    [name |-> name,
     power_watts |-> power,
     hours_per_day |-> hours,
     daily_kwh |-> FMul(power, hours),
     monthly_kwh |-> FMul(FMul(power, hours), F(30))]

\* Mutant: the names are compared ignoring case, as add_device compares them
WithoutDevice_caseInsensitive(ds, device_name) ==
    LET Other(d) == lower(d.name) # lower(device_name)
    IN SelectSeq(ds, Other)

\* [d for d in self.devices_data if d["name"] != device_name]
WithoutDevice(ds, device_name) ==
    LET Other(d) == d.name # device_name
    IN SelectSeq(ds, Other)

\* The titles of the message boxes a handler shows, in order
Shown(op, titles) == titles

-----------------------------------------------------------------------------
(* The state after __init__ on a machine with no data files *)

Init ==
    /\ today \in Todays
    /\ history_file = AbsentFile
    /\ initial_reading_file = AbsentFile
    /\ devices_file = AbsentFile
    /\ history_data = load_history(history_file)
    /\ devices_data = load_devices(devices_file)
    /\ current_reading = get_initial_reading(history_data, initial_reading_file)
    /\ filter_type = "All"
    /\ start_date = addMonthsMinus1(today)
    /\ end_date = today
    /\ analytics_period = "Monthly"
    /\ analytics_year = today.year
    /\ current_reading_label = current_reading
    /\ history_table = filter_history(history_data, filter_type, today, start_date, end_date)
    /\ summary_label = update_summary(history_data, today)
    /\ graph = update_analytics(history_data, analytics_period, analytics_year)
    /\ estimation_label = EstimationOf(devices_data)
    /\ comparison_label = ComparisonOf(history_data, devices_data, today)
    /\ dialog = Shown("", <<>>)

-----------------------------------------------------------------------------
(* Handlers *)

\* save_entry() with text in new_reading_input and date in date_input; faulty says
\* whether the file system may fail during the call (so for every handler)
save_entry(text, date, faulty) ==
    IF FloatRaises(text) \/ ReadingRejected(FloatOf(text), current_reading)
    THEN /\ dialog' = Shown("save_entry", <<"Invalid Input">>)
         /\ UNCHANGED <<ledgerVars, deviceVars, selectVars, viewVars, today>>
    ELSE LET h == history_append(history_data,
                                 NewEntry(FloatOf(text), date, current_reading))
         IN /\ Len(history_data) < MaxHistory
            /\ history_data' = h
            /\ \E file \in WriteOutcomes(history_file, DumpHistory(h), faulty) :
                  /\ history_file' = file
                  /\ dialog' = Shown("save_entry",
                                     IF file = WrittenFile(DumpHistory(h))
                                     THEN <<"Success">>
                                     ELSE <<"Save Error", "Success">>)
            /\ current_reading' = get_initial_reading(h, initial_reading_file)
            /\ current_reading_label' = current_reading'
            /\ history_table' = filter_history(h, filter_type, today, start_date, end_date)
            /\ summary_label' = update_summary(h, today)
            /\ graph' = update_analytics(h, analytics_period, analytics_year)
            /\ estimation_label' = EstimationOf(devices_data)
            /\ comparison_label' = ComparisonOf(h, devices_data, today)
            /\ UNCHANGED <<initial_reading_file, deviceVars, selectVars, today>>

\* set_initial_reading() with text in initial_reading_input
set_initial_reading(text, faulty) ==
    /\ IF FloatRaises(text) \/ InitialReadingRejected(FloatOf(text))
       THEN /\ dialog' = Shown("set_initial_reading", <<"Invalid Input">>)
            /\ UNCHANGED <<ledgerVars, viewVars>>
       ELSE \E file \in WriteOutcomes(initial_reading_file,
                                      DumpInitialReading(FloatOf(text)), faulty) :
               /\ initial_reading_file' = file
               /\ IF file = WrittenFile(DumpInitialReading(FloatOf(text)))
                  THEN /\ current_reading' = get_initial_reading(history_data, file)
                       /\ current_reading_label' = current_reading'
                       /\ dialog' = Shown("set_initial_reading", <<"Success">>)
                  ELSE /\ dialog' = Shown("set_initial_reading", <<"File Error">>)
                       /\ UNCHANGED <<current_reading, current_reading_label>>
               /\ UNCHANGED <<history_data, history_file, history_table, summary_label,
                              graph, estimation_label, comparison_label>>
    /\ UNCHANGED <<deviceVars, selectVars, today>>

\* reset_data(), after the password and the confirmation
reset_data(faulty) ==
    /\ \E hf \in RemoveOutcomes(history_file, faulty),
          irf \in RemoveOutcomes(initial_reading_file, faulty) :
          IF hf.state # "absent"
          THEN \* os.remove(self.history_file) raised
               /\ dialog' = Shown("reset_data", <<"Error">>)
               /\ UNCHANGED <<ledgerVars, viewVars>>
          ELSE IF irf.state # "absent"
          THEN \* os.remove(self.initial_reading_file) raised
               /\ history_file' = hf
               /\ dialog' = Shown("reset_data", <<"Error">>)
               /\ UNCHANGED <<history_data, initial_reading_file, current_reading,
                              viewVars>>
          ELSE /\ history_file' = hf
               /\ initial_reading_file' = irf
               /\ history_data' = <<>>
               /\ current_reading' = F(0)
               /\ history_table' = filter_history(<<>>, filter_type, today,
                                                  start_date, end_date)
               /\ summary_label' = update_summary(<<>>, today)
               /\ graph' = update_analytics(<<>>, analytics_period, analytics_year)
               /\ current_reading_label' = F(0)
               /\ dialog' = Shown("reset_data", <<"Reset Complete">>)
               /\ UNCHANGED <<estimation_label, comparison_label>>
    /\ UNCHANGED <<deviceVars, selectVars, today>>

\* add_device() with these texts in the name, power and hours fields
add_device(name_text, power_text, hours_text, faulty) ==
    LET name == strip(name_text)
    IN /\ IF FloatRaises(power_text) \/ FloatRaises(hours_text)
          THEN /\ dialog' = Shown("add_device", <<"Invalid Input">>)
               /\ UNCHANGED <<deviceVars, estimation_label, comparison_label>>
          ELSE IF DeviceRejection(name, FloatOf(power_text), FloatOf(hours_text),
                                  devices_data) # ""
          THEN /\ dialog' = Shown("add_device",
                                  <<DeviceRejection(name, FloatOf(power_text),
                                                    FloatOf(hours_text), devices_data)>>)
               /\ UNCHANGED <<deviceVars, estimation_label, comparison_label>>
          ELSE LET ds == Append(devices_data,
                                NewDevice(name, FloatOf(power_text), FloatOf(hours_text)))
               IN /\ Len(devices_data) < MaxDevices
                  /\ devices_data' = ds
                  /\ \E file \in WriteOutcomes(devices_file, DumpDevices(ds), faulty) :
                        /\ devices_file' = file
                        /\ dialog' = Shown("add_device",
                                           IF file = WrittenFile(DumpDevices(ds))
                                           THEN <<"Success">>
                                           ELSE <<"Save Error", "Success">>)
                  /\ estimation_label' = EstimationOf(ds)
                  /\ comparison_label' = ComparisonOf(history_data, ds, today)
       /\ UNCHANGED <<ledgerVars, selectVars, current_reading_label, history_table,
                      summary_label, graph, today>>

\* remove_device(device_name); its "Success" box is recorded with the name its
\* message gives ("Device '<name>' removed successfully!")
remove_device(device_name, faulty) ==
    LET ds == WithoutDevice(devices_data, device_name)
    IN /\ devices_data' = ds
       /\ \E file \in WriteOutcomes(devices_file, DumpDevices(ds), faulty) :
             /\ devices_file' = file
             /\ dialog' = Shown("remove_device",
                                IF file = WrittenFile(DumpDevices(ds))
                                THEN <<"Success", device_name>>
                                ELSE <<"Save Error", "Success", device_name>>)
       /\ estimation_label' = EstimationOf(ds)
       /\ comparison_label' = ComparisonOf(history_data, ds, today)
       /\ UNCHANGED <<ledgerVars, selectVars, current_reading_label,
                      history_table, summary_label, graph, today>>

\* __init__ run again: the program is started on the files an earlier run (ended
\* normally or by a crash) left; a file that does not parse is reported and read
\* as the empty list, an initial reading that does not parse as none
__init__ ==
    LET h == load_history(history_file)
        ds == load_devices(devices_file)
        LoadError(file) == IF file.state = "truncated" THEN <<"Load Error">> ELSE <<>>
    IN /\ history_data' = h
       /\ devices_data' = ds
       /\ current_reading' = get_initial_reading(h, initial_reading_file)
       /\ filter_type' = "All"
       /\ start_date' = addMonthsMinus1(today)
       /\ end_date' = today
       /\ analytics_period' = "Monthly"
       /\ analytics_year' = today.year
       /\ current_reading_label' = current_reading'
       /\ history_table' = filter_history(h, filter_type', today, start_date', end_date')
       /\ summary_label' = update_summary(h, today)
       /\ graph' = update_analytics(h, analytics_period', analytics_year')
       /\ estimation_label' = EstimationOf(ds)
       /\ comparison_label' = ComparisonOf(h, ds, today)
       /\ dialog' = Shown("__init__", LoadError(history_file) \o LoadError(devices_file))
       /\ UNCHANGED <<history_file, initial_reading_file, devices_file, today>>

-----------------------------------------------------------------------------
(* What the user may type *)

ReadingTexts == { JunkText, FloatText(NaN), FloatText(F(-1)), FloatText(F(1)),
                  FloatText(F(2)) }
InitialTexts == { JunkText, FloatText(F(-1)), FloatText(F(1)) }
NameTexts == { <<>>, <<" ">>, <<"F">>, <<"f">>, <<" ", "f", " ">>, <<"T">> }
PowerTexts == { JunkText, FloatText(NaN), FloatText(F(0)), FloatText(F(100)),
                FloatText(F(200)) }
HoursTexts == { FloatText(F(0)), FloatText(F(5)), FloatText(F(10)), FloatText(F(24)),
                FloatText(F(25)) }
DeviceNames == { strip(n) : n \in NameTexts }

-----------------------------------------------------------------------------
(* Specifications *)

\* The ledger (readings, initial reading, reset) on a file system that does not
\* fail, within one calendar day
Next ==
    \/ \E text \in ReadingTexts, date \in Dates : save_entry(text, date, FALSE)
    \/ \E text \in InitialTexts : set_initial_reading(text, FALSE)
    \/ reset_data(FALSE)

Spec == Init /\ [][Next]_vars

\* The ledger's queries (filter, summary, analytics) over the ledgers save_entry
\* builds, on a file system that does not fail, within one calendar day
NextQueries ==
    \E text \in ReadingTexts, date \in Dates : save_entry(text, date, FALSE)

SpecQueries == Init /\ [][NextQueries]_vars

\* The device registry on a file system that does not fail
NextDevices ==
    \/ \E n \in NameTexts, p \in PowerTexts, h \in HoursTexts : add_device(n, p, h, FALSE)
    \/ \E n \in DeviceNames : remove_device(n, FALSE)

SpecDevices == Init /\ [][NextDevices]_vars

\* The ledger with initial readings of 0, of 1 and above the readings typed stored
\* before and after entries, on a file system that does not fail
StoredTexts == { JunkText, FloatText(F(-1)), FloatText(F(0)), FloatText(F(1)),
                 FloatText(F(3)) }
LedgerDates == { Date(2023, 1, 10), Date(2024, 1, 10), Date(2024, 1, 29) }

NextLedger ==
    \/ \E text \in ReadingTexts, date \in LedgerDates : save_entry(text, date, FALSE)
    \/ \E text \in StoredTexts : set_initial_reading(text, FALSE)
    \/ reset_data(FALSE)

SpecLedger == Init /\ [][NextLedger]_vars

\* The ledger with entries dated in each of the five weeks of a month, in two
\* months and two years, on a file system that does not fail
WeekReadingTexts == { FloatText(F(1)), FloatText(F(2)) }
WeekDates == { Date(2023, 12, 31), Date(2024, 1, 1), Date(2024, 1, 8),
               Date(2024, 1, 15), Date(2024, 1, 22), Date(2024, 1, 29),
               Date(2024, 2, 11) }

NextWeeks ==
    \E text \in WeekReadingTexts, date \in WeekDates : save_entry(text, date, FALSE)

SpecWeeks == Init /\ [][NextWeeks]_vars

\* The ledger and the registry on a file system that may fail during any call
\* (a write may raise before or after it truncated the file, a removal may raise),
\* with the program started again at any time
FaultReadingTexts == { FloatText(F(1)), FloatText(F(2)) }
FaultDates == { Date(2024, 1, 10) }
FaultInitialTexts == { FloatText(F(1)) }
FaultNameTexts == { <<"F">>, <<"T">> }
FaultPowerTexts == { FloatText(F(100)) }
FaultHoursTexts == { FloatText(F(5)) }

NextFaults ==
    \/ \E text \in FaultReadingTexts, date \in FaultDates, faulty \in BOOLEAN :
          save_entry(text, date, faulty)
    \/ \E text \in FaultInitialTexts, faulty \in BOOLEAN :
          set_initial_reading(text, faulty)
    \/ \E faulty \in BOOLEAN : reset_data(faulty)
    \/ \E n \in FaultNameTexts, p \in FaultPowerTexts, h \in FaultHoursTexts,
          faulty \in BOOLEAN : add_device(n, p, h, faulty)
    \/ \E n \in FaultNameTexts, faulty \in BOOLEAN : remove_device(n, faulty)
    \/ __init__

SpecFaults == Init /\ [][NextFaults]_vars

\* The ledger and the registry together, with readings and devices chosen so that
\* this month's units and the estimate differ by less than, exactly and more than
\* one kWh (devices of 15 and 15.3 kWh a month), on a file system that does not fail
CompareReadingTexts == { FloatText(F(14)), FloatText(F(15)), FloatText(F(16)) }
CompareDates == { Date(2023, 1, 10), Date(2024, 1, 10) }
CompareNameTexts == { <<"F">>, <<"T">> }
ComparePowerTexts == { FloatText(F(100)), FloatText(F(102)), FloatText(NaN) }
CompareHoursTexts == { FloatText(F(5)) }

NextCompare ==
    \/ \E text \in CompareReadingTexts, date \in CompareDates :
          save_entry(text, date, FALSE)
    \/ \E n \in CompareNameTexts, p \in ComparePowerTexts, h \in CompareHoursTexts :
          add_device(n, p, h, FALSE)
    \/ \E n \in CompareNameTexts : remove_device(n, FALSE)

SpecCompare == Init /\ [][NextCompare]_vars
-----------------------------------------------------------------------------
(* Properties *)

FilterTypes == { "All", "This Month", "This Year", "Custom Range" }
Periods == { "Daily", "Weekly", "Monthly", "Yearly" }
Years == { d.year : d \in Dates }

\* Calendar order on (year, month, day), without the Julian day
Before(p, q) ==
    \/ p.year < q.year
    \/ p.year = q.year /\ p.month < q.month
    \/ p.year = q.year /\ p.month = q.month /\ p.day < q.day
NotAfter(p, q) == p = q \/ Before(p, q)

\* C1: the current reading (the query and the cached field) is the new_reading of
\* the entry with the maximum date (the first appended of them when several entries
\* have that date) when the ledger is non-empty; otherwise the stored initial
\* reading if one is stored; otherwise 0.
C1_CurrentReading ==
    LET h == history_data
        cr == get_initial_reading(h, initial_reading_file)
    IN /\ current_reading = cr
       /\ h # <<>> =>
            \E i \in 1..Len(h) :
               /\ \A j \in 1..Len(h) : NotAfter(EntryDate(h[j]), EntryDate(h[i]))
               /\ \A j \in 1..(i - 1) : Before(EntryDate(h[j]), EntryDate(h[i]))
               /\ cr = h[i].new_reading
       /\ h = <<>> /\ initial_reading_file.state = "ok" =>
            cr = initial_reading_file.data[1][2]
       /\ h = <<>> /\ initial_reading_file.state # "ok" => cr = F(0)

\* C1 witness: two entries appended out of chronological order (29-01-2024, then
\* 10-01-2024) with different readings; the current reading is the first one's.
C1_Witness ==
    /\ Len(history_data) = 2
    /\ history_data[1].date = toString_ddMMyyyy(Date(2024, 1, 29))
    /\ history_data[2].date = toString_ddMMyyyy(Date(2024, 1, 10))
    /\ history_data[1].new_reading # history_data[2].new_reading
    /\ current_reading = history_data[1].new_reading

\* C2 (as claimed): every entry of the ledger has new_reading >= previous_reading,
\* units = new_reading - previous_reading >= 0 and total_cost = units * unit_cost.
C2_EntriesConsistent ==
    \A i \in 1..Len(history_data) :
       LET e == history_data[i]
       IN /\ FGe(e.new_reading, e.previous_reading)
          /\ e.units = FSub(e.new_reading, e.previous_reading)
          /\ FGe(e.units, F(0))
          /\ e.total_cost = FMul(e.units, F(unit_cost))

\* C3: a save_entry whose reading is not a number or is lower than the current
\* reading, and a set_initial_reading whose value is not a number or is negative,
\* show "Invalid Input" and leave the ledger, the history file, the stored initial
\* reading and the current reading as they were.
C3_InvalidReadingLeavesState ==
    [][ \/ /\ dialog' = <<"Invalid Input">>
           /\ history_data' = history_data
           /\ history_file' = history_file
           /\ initial_reading_file' = initial_reading_file
           /\ current_reading' = current_reading
           /\ get_initial_reading(history_data', initial_reading_file')
                = get_initial_reading(history_data, initial_reading_file)
        \/ ~ ( \/ \E text \in ReadingTexts, date \in Dates :
                     /\ FloatRaises(text) \/ FLt(FloatOf(text), current_reading)
                     /\ save_entry(text, date, FALSE)
               \/ \E text \in InitialTexts :
                     /\ FloatRaises(text) \/ FLt(FloatOf(text), F(0))
                     /\ set_initial_reading(text, FALSE) ) ]_vars

\* C3 witness: an operation was rejected with "Invalid Input" on a ledger that has
\* an entry and a current reading above 1 (so the reading 1 is one it rejects).
C3_Witness ==
    /\ dialog = <<"Invalid Input">>
    /\ history_data # <<>>
    /\ FLt(F(1), current_reading)

\* C4: every step other than a reset leaves the ledger as it was or adds exactly one
\* entry at its end, the entries before it unchanged and in their order; a
\* save_entry that reports success adds one.
C4_AppendOnly ==
    [][ /\ \/ history_data' = history_data
           \/ /\ Len(history_data') = Len(history_data) + 1
              /\ SubSeq(history_data', 1, Len(history_data)) = history_data
           \/ reset_data(FALSE)
        /\ \/ Len(history_data') = Len(history_data) + 1
           \/ dialog' # <<"Success">>
           \/ ~ \E text \in ReadingTexts, date \in Dates :
                   save_entry(text, date, FALSE) ]_vars

\* C4 witness: a second entry was appended after a first with a different date.
C4_Witness ==
    /\ Len(history_data) = 2
    /\ history_data[1].date # history_data[2].date
    /\ dialog = <<"Success">>
\* The start and end dates the custom ranges are checked over: before, on and
\* after entry dates, in either order
RangeDates == { Date(2023, 1, 10), Date(2024, 1, 10), Date(2024, 1, 31),
                Date(2024, 10, 8) }

\* The dates filter mode ftype keeps, as the ledger's contract states them
Matches(d, ftype, now, sd, ed) ==
    CASE ftype = "All" -> TRUE
      [] ftype = "This Month" -> d.month = now.month /\ d.year = now.year
      [] ftype = "This Year" -> d.year = now.year
      [] ftype = "Custom Range" -> NotAfter(sd, d) /\ NotAfter(d, ed)

\* filter_history's result r holds exactly the entries of h (dated hd) that match,
\* each exactly once, ordered by date descending
FilterResultExact(h, hd, r, ftype, now, sd, ed) ==
    LET matching == { i \in 1..Len(h) : Matches(hd[i], ftype, now, sd, ed) }
        dates == [p \in 1..Len(r) |-> EntryDate(r[p])]
    IN /\ Len(r) = Cardinality(matching)
       /\ \A p \in 1..Len(r) :
             Cardinality({ q \in 1..Len(r) : r[q] = r[p] })
               = Cardinality({ i \in matching : h[i] = r[p] })
       /\ \A p \in 1..(Len(r) - 1) : NotAfter(dates[p + 1], dates[p])

\* C5: for every mode and every range over RangeDates, filter_history returns
\* exactly the ledger entries that match the mode (All: every entry; This Month: the month and year of today;
\* This Year: the year of today; Custom Range: start <= date <= end), each exactly
\* once, ordered by date descending.
C5_FilterExact ==
    LET h == history_data
        hd == [i \in 1..Len(h) |-> EntryDate(h[i])]
    IN /\ \A ftype \in FilterTypes \ {"Custom Range"} :
             FilterResultExact(h, hd,
                               filter_history(h, ftype, today, start_date, end_date),
                               ftype, today, start_date, end_date)
       /\ \A sd \in RangeDates, ed \in RangeDates :
             FilterResultExact(h, hd,
                               filter_history(h, "Custom Range", today, sd, ed),
                               "Custom Range", today, sd, ed)

\* C5 witness: two entries appended oldest first; "All" lists the newer one first,
\* and a custom range that ends on the older entry's date keeps that entry alone.
C5_Witness ==
    /\ Len(history_data) = 2
    /\ Before(EntryDate(history_data[1]), EntryDate(history_data[2]))
    /\ filter_history(history_data, "All", today, today, today)
         = <<history_data[2], history_data[1]>>
    /\ \E sd \in Dates :
          /\ Before(sd, EntryDate(history_data[1]))
          /\ filter_history(history_data, "Custom Range", today, sd,
                            EntryDate(history_data[1])) = <<history_data[1]>>

\* The bucket label of an entry for a granularity, from its calendar date
LabelOf(e, period) ==
    LET d == EntryDate(e)
    IN CASE period = "Daily" -> toString_yyyyMMdd(d)
         [] period = "Weekly" -> WeekDisplayKey(d.year, d.month, ((d.day - 1) \div 7) + 1)
         [] period = "Monthly" -> month_name(d.month)
         [] period = "Yearly" -> d.year

\* The ledger positions an aggregation covers: every entry for Yearly, the entries
\* of the selected year otherwise
Covered(h, period, year) ==
    { i \in 1..Len(h) : period = "Yearly" \/ EntryDate(h[i]).year = year }

\* The sum of f over a set of ledger positions
RECURSIVE SumAt(_, _)
SumAt(f, S) ==
    IF S = {} THEN F(0)
    ELSE LET i == CHOOSE j \in S : \A k \in S : k <= j
         IN FAdd(SumAt(f, S \ {i}), f[i])

\* C6: for every granularity and selected year, the aggregation has a bucket for a
\* label exactly when a covered entry has that label, one bucket per label, whose
\* units and cost are the sums over the covered entries with that label; an empty
\* ledger gives an empty result.
C6_BucketsExact ==
    \A period \in Periods, year \in Years :
       LET h == history_data
           r == update_analytics(h, period, year)
           covered == Covered(h, period, year)
           members(label) == { i \in covered : LabelOf(h[i], period) = label }
       IN /\ \A p, q \in 1..Len(r) : p # q => r[p].label # r[q].label
          /\ \A p \in 1..Len(r) : members(r[p].label) # {}
          /\ \A i \in covered : \E p \in 1..Len(r) : r[p].label = LabelOf(h[i], period)
          /\ \A p \in 1..Len(r) :
                /\ r[p].units = SumAt(UnitsOf(h), members(r[p].label))
                /\ r[p].cost = SumAt(CostsOf(h), members(r[p].label))
          /\ h = <<>> => r = <<>>

\* C6 witness: two entries with positive units on different days of January 2024:
\* one Monthly bucket holding both, two Daily buckets, and no bucket for 2023.
C6_Witness ==
    /\ Len(history_data) = 2
    /\ FGt(history_data[1].units, F(0)) /\ FGt(history_data[2].units, F(0))
    /\ Len(update_analytics(history_data, "Monthly", 2024)) = 1
    /\ update_analytics(history_data, "Monthly", 2024)[1].units
         = FAdd(history_data[1].units, history_data[2].units)
    /\ Len(update_analytics(history_data, "Daily", 2024)) = 2
    /\ update_analytics(history_data, "Monthly", 2023) = <<>>

\* The (year, month, week of month) of an entry
WeekOf(e) ==
    LET d == EntryDate(e)
    IN <<d.year, d.month, ((d.day - 1) \div 7) + 1>>
WeekBefore(a, b) ==
    \/ a[1] < b[1]
    \/ a[1] = b[1] /\ a[2] < b[2]
    \/ a[1] = b[1] /\ a[2] = b[2] /\ a[3] < b[3]

\* C7: the Weekly aggregation has one bucket per (year, month, floor((day-1)/7)+1)
\* of the covered entries, holding the entries of that week, and lists the buckets
\* in chronological order of (year, month, week).
C7_WeeklyBuckets ==
    \A year \in Years :
       LET h == history_data
           r == update_analytics(h, "Weekly", year)
           covered == Covered(h, "Weekly", year)
           weeks == { WeekOf(h[i]) : i \in covered }
       IN /\ Len(r) = Cardinality(weeks)
          /\ \E w \in [1..Len(r) -> weeks] :
                /\ \A p \in 1..Len(r) :
                      /\ r[p].label = WeekDisplayKey(w[p][1], w[p][2], w[p][3])
                      /\ r[p].units
                           = SumAt(UnitsOf(h), { i \in covered : WeekOf(h[i]) = w[p] })
                /\ \A p, q \in 1..Len(r) : p < q => WeekBefore(w[p], w[q])

\* C7 witness: 01-02-2024 appended before 31-01-2024; the buckets are the 5th week of
\* January 2024, then the 1st week of February 2024.
C7_Witness ==
    /\ Len(history_data) = 2
    /\ EntryDate(history_data[1]) = Date(2024, 2, 1)
    /\ EntryDate(history_data[2]) = Date(2024, 1, 31)
    /\ LET r == update_analytics(history_data, "Weekly", 2024)
       IN /\ Len(r) = 2
          /\ r[1].label = WeekDisplayKey(2024, 1, 5)
          /\ r[2].label = WeekDisplayKey(2024, 2, 1)
\* The labels of an aggregation result, in order
LabelsOf(r) == [p \in 1..Len(r) |-> r[p].label]

\* C8: for every selected year, the Daily and the Monthly aggregation hold one bucket
\* per day, respectively month, of the ledger entries dated in that year, no other
\* entry, in ascending order of day, respectively month; the Yearly aggregation is
\* the same whatever year is selected and holds one bucket per year of all ledger
\* entries, in ascending order of year.
C8_YearFilter ==
    LET h == history_data
    IN \A year \in Years :
          LET inYear == { i \in 1..Len(h) : EntryDate(h[i]).year = year }
              daily == update_analytics(h, "Daily", year)
              monthly == update_analytics(h, "Monthly", year)
              yearly == update_analytics(h, "Yearly", year)
              days == { EntryDate(h[i]) : i \in inYear }
              months == { EntryDate(h[i]).month : i \in inYear }
              years == { EntryDate(h[i]).year : i \in 1..Len(h) }
          IN /\ Len(daily) = Cardinality(days)
             /\ \E d \in [1..Len(daily) -> days] :
                   /\ \A p \in 1..Len(daily) :
                         /\ daily[p].label = toString_yyyyMMdd(d[p])
                         /\ daily[p].units
                              = SumAt(UnitsOf(h), { i \in inYear : EntryDate(h[i]) = d[p] })
                   /\ \A p \in 1..(Len(daily) - 1) : Before(d[p], d[p + 1])
             /\ Len(monthly) = Cardinality(months)
             /\ \E m \in [1..Len(monthly) -> months] :
                   /\ \A p \in 1..Len(monthly) :
                         /\ monthly[p].label = month_name(m[p])
                         /\ monthly[p].units
                              = SumAt(UnitsOf(h),
                                      { i \in inYear : EntryDate(h[i]).month = m[p] })
                   /\ \A p \in 1..(Len(monthly) - 1) : m[p] < m[p + 1]
             /\ Len(yearly) = Cardinality(years)
             /\ \A p \in 1..Len(yearly) :
                   /\ yearly[p].label \in years
                   /\ yearly[p].units
                        = SumAt(UnitsOf(h),
                                { i \in 1..Len(h) : EntryDate(h[i]).year = yearly[p].label })
             /\ \A p \in 1..(Len(yearly) - 1) : yearly[p].label < yearly[p + 1].label
             /\ \A other \in Years : update_analytics(h, "Yearly", other) = yearly

\* C8 witness: an entry of 2024 appended before an entry of 2023, both with positive
\* units: Monthly and Daily for 2024 hold the 2024 entry alone, Yearly holds 2023
\* then 2024.
C8_Witness ==
    /\ Len(history_data) = 2
    /\ EntryDate(history_data[1]).year = 2024
    /\ EntryDate(history_data[2]).year = 2023
    /\ FGt(history_data[1].units, F(0)) /\ FGt(history_data[2].units, F(0))
    /\ LabelsOf(update_analytics(history_data, "Yearly", 2024)) = <<2023, 2024>>
    /\ Len(update_analytics(history_data, "Monthly", 2024)) = 1
    /\ update_analytics(history_data, "Monthly", 2024)[1].units = history_data[1].units
    /\ Len(update_analytics(history_data, "Daily", 2024)) = 1

\* C9: for a ledger with entries, the summary (the one computed now, and the totals
\* on display) gives the sum of units and the sum of total_cost over the whole
\* ledger, and as this month's units the sum of units over exactly the entries dated
\* in the month and year of today; with no entry it says there is no history.
C9_Summary ==
    LET h == history_data
        sm == update_summary(h, today)
        all == 1..Len(h)
        thisMonth == { i \in all : EntryDate(h[i]).month = today.month
                                   /\ EntryDate(h[i]).year = today.year }
    IN IF h = <<>>
       THEN sm = NoSummary /\ summary_label = NoSummary
       ELSE /\ sm.total_units = SumAt(UnitsOf(h), all)
            /\ sm.total_cost = SumAt(CostsOf(h), all)
            /\ sm.this_month_units = SumAt(UnitsOf(h), thisMonth)
            /\ summary_label.total_units = sm.total_units
            /\ summary_label.total_cost = sm.total_cost

\* C9 witness: two entries with positive units in the same month of different years,
\* one of them in the month of today: this month's units are that entry's units.
C9_Witness ==
    /\ Len(history_data) = 2
    /\ FGt(history_data[1].units, F(0)) /\ FGt(history_data[2].units, F(0))
    /\ EntryDate(history_data[1]).month = today.month
    /\ EntryDate(history_data[1]).year # today.year
    /\ EntryDate(history_data[2]).month = today.month
    /\ EntryDate(history_data[2]).year = today.year
    /\ update_summary(history_data, today).this_month_units = history_data[2].units
    /\ update_summary(history_data, today).total_units
         = FAdd(history_data[1].units, history_data[2].units)

\* The inputs the registry's contract says add rejects
BadDevice(name_text, power, hours, ds) ==
    \/ \A i \in 1..Len(name_text) : name_text[i] = " "
    \/ FLe(power, F(0))
    \/ FLe(hours, F(0))
    \/ FGt(hours, F(24))
    \/ \E i \in 1..Len(ds) : lower(ds[i].name) = lower(strip(name_text))

\* C10: an add_device whose name is empty or only whitespace, whose power is <= 0,
\* whose hours are <= 0 or > 24, or whose name equals a registered device's name
\* ignoring case, shows a warning and leaves the device list and the device file as
\* they were.
C10_AddRejected ==
    [][ \/ /\ devices_data' = devices_data
           /\ devices_file' = devices_file
           /\ dialog' \in { <<"Invalid Input">>, <<"Duplicate Device">> }
        \/ ~ \E n \in NameTexts, p \in PowerTexts, h \in HoursTexts :
                /\ ~FloatRaises(p) /\ ~FloatRaises(h)
                /\ BadDevice(n, FloatOf(p), FloatOf(h), devices_data)
                /\ add_device(n, p, h, FALSE) ]_vars

\* C10 witness: with "F" registered and saved, an add was rejected as a duplicate.
C10_Witness ==
    /\ dialog = <<"Duplicate Device">>
    /\ Len(devices_data) = 1
    /\ devices_data[1].name = <<"F">>
    /\ devices_file = WrittenFile(DumpDevices(devices_data))

\* C11: no two registered devices have names that are equal when lowercased, and
\* every registered device has power_watts > 0 and 0 < hours_per_day <= 24.
C11_RegistryValid ==
    /\ \A i \in 1..Len(devices_data), j \in 1..Len(devices_data) :
          i # j => lower(devices_data[i].name) # lower(devices_data[j].name)
    /\ \A i \in 1..Len(devices_data) :
          /\ FGt(devices_data[i].power_watts, F(0))
          /\ FGt(devices_data[i].hours_per_day, F(0))
          /\ FLe(devices_data[i].hours_per_day, F(24))

\* The k-th device of ds whose name differs from name in some character
KeptDevice(ds, name, k) ==
    LET kept == { i \in 1..Len(ds) : ds[i].name # name }
    IN ds[CHOOSE i \in kept : Cardinality({ j \in kept : j <= i }) = k]

\* C12: remove_device(name) deletes exactly the devices whose stored name equals
\* name character for character and leaves every other device unchanged and in the
\* same order (so removing "f" leaves a device stored as "F" registered); the
\* device file holds the list that is left.
C12_RemoveExact ==
    [][ \A n \in DeviceNames :
           \/ ~remove_device(n, FALSE)
           \/ /\ Len(devices_data')
                   = Cardinality({ i \in 1..Len(devices_data) : devices_data[i].name # n })
              /\ \A k \in 1..Len(devices_data') :
                    devices_data'[k] = KeptDevice(devices_data, n, k)
              /\ n = <<"f">> =>
                    \A i \in 1..Len(devices_data) :
                       devices_data[i].name = <<"F">> =>
                          \E k \in 1..Len(devices_data') :
                             devices_data'[k] = devices_data[i]
              /\ load_devices(devices_file') = devices_data' ]_vars

\* C12 witness: "f" was removed from a registry that holds the device stored as "F",
\* and the device is still registered.
C12_Witness ==
    /\ dialog = <<"Success", <<"f">> >>
    /\ Len(devices_data) = 1
    /\ devices_data[1].name = <<"F">>

\* power_watts * hours_per_day * 30 / 1000 of each registered device, in Wh
MonthlyEnergy(ds) ==
    [i \in 1..Len(ds) |-> FMul(FMul(ds[i].power_watts, ds[i].hours_per_day), F(30))]

\* C15: the estimated monthly total shown (and computed from the registry) is the
\* sum over the registered devices of power_watts * hours_per_day * 30 / 1000, and
\* the estimated monthly cost is that total times the unit cost.
C15_EstimatedTotal ==
    LET total == FSum(MonthlyEnergy(devices_data))
    IN /\ estimation_label.total_monthly_kwh = total
       /\ estimation_label.total_cost = FMul(total, F(unit_cost))
       /\ EstimationOf(devices_data) = estimation_label

\* C15 witness: devices of 200 W for 5 h and 100 W for 10 h are registered after a
\* successful add, and the estimate is 60 kWh.
C15_Witness ==
    /\ Len(devices_data) = 2
    /\ \E i \in 1..2 : /\ devices_data[i].power_watts = F(200)
                       /\ devices_data[i].hours_per_day = F(5)
    /\ \E i \in 1..2 : /\ devices_data[i].power_watts = F(100)
                       /\ devices_data[i].hours_per_day = F(10)
    /\ estimation_label.total_monthly_kwh = F(60 * KWH)
    /\ dialog = <<"Success">>

\* compareToActual returns None: the label shows one of its two "no data" texts
IsNone(c) ==
    c.text \in { "Add some usage history to see comparison",
                 "No actual usage data for this month yet" }

\* h has an entry dated in the calendar month (and year) of now
HasEntryThisMonth(h, now) ==
    \E i \in 1..Len(h) :
       EntryDate(h[i]).month = now.month /\ EntryDate(h[i]).year = now.year

\* C13: the comparison is None when the ledger has no entry dated in the current
\* calendar month, and is a Comparison whenever at least one ledger entry is dated
\* in the current calendar month and year.
C13_NoneIffNoEntryThisMonth ==
    LET c == ComparisonOf(history_data, devices_data, today)
    IN IsNone(c) <=> ~HasEntryThisMonth(history_data, today)

\* The band of a Comparison, from the wording of the label
BandOf(c) ==
    CASE c.text = "Very close to estimate!" -> "close"
      [] c.text = "more than estimate" -> "actualHigher"
      [] c.text = "less than estimate" -> "actualLower"
      [] OTHER -> "none"

\* The units of the entries of h dated in the month and year of now, in Wh
ActualThisMonth(h, now) ==
    LET idx == { i \in 1..Len(h) : /\ EntryDate(h[i]).month = now.month
                                   /\ EntryDate(h[i]).year = now.year }
        InMonth(e) == \E i \in idx : h[i] = e
    IN FMul(FSum(UnitsOf(SelectSeq(h, InMonth))), F(KWH))

\* C14: when the comparison is a Comparison, its actual is the units of the current
\* month, its difference is actual - estimated (estimated = the estimated monthly
\* total; the label words a negative difference as that much "less"), and its band
\* is "close" if |difference| < 1, otherwise "actualHigher" if difference > 0,
\* otherwise "actualLower"; a difference of exactly 1 is "actualHigher" and of
\* exactly -1 "actualLower".  The label shows this comparison.
C14_Band ==
    LET c == ComparisonOf(history_data, devices_data, today)
        actual == ActualThisMonth(history_data, today)
        estimated == EstimationOf(devices_data).total_monthly_kwh
        difference == FSub(actual, estimated)
    IN /\ comparison_label = c
       /\ ~IsNone(c) =>
            /\ c.actual = actual
            /\ BandOf(c) = IF FLt(FAbs(difference), F(KWH)) THEN "close"
                           ELSE IF FGt(difference, F(0)) THEN "actualHigher"
                           ELSE "actualLower"
            /\ c.difference = IF BandOf(c) = "actualLower" THEN FAbs(difference)
                              ELSE difference
            /\ difference = F(KWH) => BandOf(c) = "actualHigher"
            /\ difference = F(0 - KWH) => BandOf(c) = "actualLower"

\* C14 witness: with a device registered, this month's units are exactly one kWh
\* above the estimate and the label says "more than estimate".
C14_Witness ==
    /\ devices_data # <<>>
    /\ comparison_label.text = "more than estimate"
    /\ comparison_label.difference = F(KWH)
    /\ FSub(ActualThisMonth(history_data, today),
            EstimationOf(devices_data).total_monthly_kwh) = F(KWH)

\* C16: when the ledger is non-empty, a set_initial_reading with a valid value
\* leaves the current reading (the query and the cached field) as it was, still the
\* new_reading of the maximum-date entry, and leaves the ledger and its file
\* unchanged.
C16_InitialReadingInert ==
    [][ \/ history_data = <<>>
        \/ ~ \E text \in StoredTexts :
                /\ ~FloatRaises(text)
                /\ ~FLt(FloatOf(text), F(0))
                /\ set_initial_reading(text, FALSE)
        \/ /\ history_data' = history_data
           /\ history_file' = history_file
           /\ get_initial_reading(history_data', initial_reading_file')
                = get_initial_reading(history_data, initial_reading_file)
           /\ current_reading' = current_reading
           /\ current_reading' = MaxByDate(history_data').new_reading ]_vars

\* C16 witness: an initial reading is stored although the first entry was appended
\* at a current reading of 0 (so it was stored after that entry), and the current
\* reading is not the stored one.
C16_Witness ==
    /\ history_data # <<>>
    /\ history_data[1].previous_reading = F(0)
    /\ initial_reading_file.state = "ok"
    /\ current_reading = F(2)
    /\ JsonValue(initial_reading_file.data, "initial_reading") = F(1)
    /\ dialog = <<"Success">>

\* C17: after a reset, whatever the state before it, the ledger is empty, no
\* initial reading is stored, the history file is absent (it loads as the empty
\* ledger), and the current reading (the query and the cached field) is 0.
C17_ResetClears ==
    [][ \/ ~reset_data(FALSE)
        \/ /\ history_data' = <<>>
           /\ initial_reading_file'.state = "absent"
           /\ history_file'.state = "absent"
           /\ load_history(history_file') = <<>>
           /\ get_initial_reading(history_data', initial_reading_file') = F(0)
           /\ current_reading' = F(0)
           /\ current_reading_label' = F(0) ]_vars

\* C17 witness: a reset has emptied a ledger that had usage in the current month
\* (the comparison label, which reset does not refresh, still reports it).
C17_Witness ==
    /\ dialog = <<"Reset Complete">>
    /\ history_data = <<>>
    /\ history_file.state = "absent"
    /\ initial_reading_file.state = "absent"
    /\ comparison_label.text = "more than estimate"

\* C18: when no file write fails, loading the history file yields exactly the
\* in-memory ledger: the same entries in the same order, every field equal.
C18_RoundTrip ==
    LET loaded == load_history(history_file)
    IN /\ Len(loaded) = Len(history_data)
       /\ \A i \in 1..Len(history_data) :
             /\ loaded[i].date = history_data[i].date
             /\ loaded[i].previous_reading = history_data[i].previous_reading
             /\ loaded[i].new_reading = history_data[i].new_reading
             /\ loaded[i].units = history_data[i].units
             /\ loaded[i].unit_cost = history_data[i].unit_cost
             /\ loaded[i].total_cost = history_data[i].total_cost
             /\ DOMAIN loaded[i] = DOMAIN history_data[i]

\* C18 witness: two entries with different dates and readings, the later-dated one
\* appended first, are saved in the history file.
C18_Witness ==
    /\ Len(history_data) = 2
    /\ history_file.state = "ok"
    /\ Len(history_file.data) = 2
    /\ Before(EntryDate(history_data[2]), EntryDate(history_data[1]))
    /\ history_data[1].new_reading # history_data[2].new_reading

\* The handler reported that persisting failed: its first box is one of the
\* failure boxes
PersistFailed(d) == d # <<>> /\ d[1] \in { "Save Error", "File Error", "Error" }

\* C19: when persisting fails during save_entry, add_device, remove_device,
\* set_initial_reading or reset_data, the operation is rejected (no "Success" box
\* follows the failure box) and the in-memory collections and the three files are
\* left exactly as they were before the call.
C19_NoPartialEffect ==
    [][ PersistFailed(dialog') /\ ~__init__
        => /\ Len(dialog') >= 2 => dialog'[2] # "Success"
           /\ history_data' = history_data
           /\ devices_data' = devices_data
           /\ current_reading' = current_reading
           /\ history_file' = history_file
           /\ initial_reading_file' = initial_reading_file
           /\ devices_file' = devices_file ]_vars

\* C20: each store holds a complete document (or is absent): a failure or a crash
\* during a mutating operation never leaves a truncated or partial file.
C20_NoPartialFile ==
    /\ history_file.state # "truncated"
    /\ initial_reading_file.state # "truncated"
    /\ devices_file.state # "truncated"

\* The ordinal label of n as the contract states it: n, then "th" when n mod 100 is
\* 11, 12 or 13, otherwise "st", "nd", "rd" for a last digit of 1, 2, 3, and "th"
\* for a last digit of 0 or 4 to 9
OrdinalLabel(n) ==
    IntToStr(n) \o
      ( IF n % 100 \in {11, 12, 13} THEN <<"t", "h">>
        ELSE CASE n % 10 = 1 -> <<"s", "t">>
               [] n % 10 = 2 -> <<"n", "d">>
               [] n % 10 = 3 -> <<"r", "d">>
               [] OTHER -> <<"t", "h">> )

\* The full English month names
FullMonthName(m) ==
    CASE m = 1 -> "January" [] m = 2 -> "February" [] m = 3 -> "March"
      [] m = 4 -> "April" [] m = 5 -> "May" [] m = 6 -> "June" [] m = 7 -> "July"
      [] m = 8 -> "August" [] m = 9 -> "September" [] m = 10 -> "October"
      [] m = 11 -> "November" [] m = 12 -> "December"

\* C21: _get_ordinal(n) is n followed by "th" when n mod 100 is 11, 12 or 13, and
\* otherwise by "st", "nd", "rd" when the last digit is 1, 2, 3 and "th" when it is
\* 0 or 4 to 9 (1st, 2nd, 3rd, 4th, 11th, 12th, 13th, 21st); every weekly bucket
\* label is "<ordinal week> week <full month name> <year>" of an entry's week, and
\* every covered entry's week has its label.
C21_OrdinalLabels ==
    /\ \A n \in 0..MaxOrdinal : _get_ordinal(n) = OrdinalLabel(n)
    /\ _get_ordinal(1) = <<"1", "s", "t">>
    /\ _get_ordinal(2) = <<"2", "n", "d">>
    /\ _get_ordinal(3) = <<"3", "r", "d">>
    /\ _get_ordinal(4) = <<"4", "t", "h">>
    /\ _get_ordinal(11) = <<"1", "1", "t", "h">>
    /\ _get_ordinal(12) = <<"1", "2", "t", "h">>
    /\ _get_ordinal(13) = <<"1", "3", "t", "h">>
    /\ _get_ordinal(21) = <<"2", "1", "s", "t">>
    /\ \A year \in Years :
          LET h == history_data
              r == update_analytics(h, "Weekly", year)
              weeks == { WeekOf(h[i]) : i \in Covered(h, "Weekly", year) }
              Label(w) == <<OrdinalLabel(w[3]), " week ", FullMonthName(w[2]), " ",
                            IntToStr(w[1])>>
          IN /\ \A p \in 1..Len(r) : \E w \in weeks : r[p].label = Label(w)
             /\ \A w \in weeks : \E p \in 1..Len(r) : r[p].label = Label(w)

\* C21 witness: entries dated 15-01-2024 and 22-01-2024 are in the ledger, and the
\* weekly buckets of 2024 are labelled "3rd week January 2024" and "4th week
\* January 2024".
C21_Witness ==
    /\ Len(history_data) = 2
    /\ EntryDate(history_data[1]) = Date(2024, 1, 15)
    /\ EntryDate(history_data[2]) = Date(2024, 1, 22)
    /\ LabelsOf(update_analytics(history_data, "Weekly", 2024))
         = << <<<<"3", "r", "d">>, " week ", "January", " ", <<"2", "0", "2", "4">> >>,
              <<<<"4", "t", "h">>, " week ", "January", " ", <<"2", "0", "2", "4">> >> >>

\* Python's == on floats: NaN equals nothing
FEq(a, b) == ~a.nan /\ ~b.nan /\ a.v = b.v

\* C22: with r0 the reading the empty ledger started from, the sum of units over
\* the ledger equals the largest new_reading in the ledger minus r0, and each
\* entry's previous_reading equals the new_reading of the entry appended just
\* before it (r0 for the first), whatever the dates of the entries.
C22_NoDoubleCounting ==
    LET h == history_data
        r0 == get_initial_reading(<<>>, initial_reading_file)
    IN h # <<>> =>
         /\ \E i \in 1..Len(h) :
               /\ \A j \in 1..Len(h) : FLe(h[j].new_reading, h[i].new_reading)
               /\ FEq(FSum(UnitsOf(h)), FSub(h[i].new_reading, r0))
         /\ FEq(h[1].previous_reading, r0)
         /\ \A i \in 2..Len(h) : FEq(h[i].previous_reading, h[i - 1].new_reading)

\* C23: after a successful save_entry of an entry whose date is not earlier than
\* the date of any entry already in the ledger (a date equal to the maximum date
\* included), the current reading (the query and the cached field) is that entry's
\* new_reading.
C23_LatestAppendIsCurrent ==
    [][ \A text \in WeekReadingTexts, date \in WeekDates :
           \/ ~ \A i \in 1..Len(history_data) :
                   NotAfter(EntryDate(history_data[i]), date)
           \/ ~ ( save_entry(text, date, FALSE) /\ dialog' = <<"Success">> )
           \/ /\ FEq(get_initial_reading(history_data', initial_reading_file'),
                     FloatOf(text))
              /\ FEq(current_reading', FloatOf(text)) ]_vars

\* C24: after every completed operation the comparison shown is the comparison of
\* the current ledger and the current device registry; it never shows a comparison
\* computed from entries a reset has deleted.
C24_ComparisonFresh ==
    /\ comparison_label = ComparisonOf(history_data, devices_data, today)
    /\ history_data = <<>> => comparison_label.actual = F(0)

====
